---- MODULE Spec2Model ----
(***************************************************************************)
(* A model of the `mat` crate (src/src/lib.rs, src/src/traits.rs):         *)
(* statically sized dense matrices built by the mat! macro, the lazy       *)
(* expression nodes Transpose / Product / Sum, the checked accessor        *)
(* Matrix::get and the row indexing of Mat.                                *)
(*                                                                         *)
(* A state is the environment of a client program: the matrices it has     *)
(* built (mats), the expression it has built (expr), the number of         *)
(* element writes it has made (writes) and the outcome of the operation it *)
(* performed last (last).  Dimensions, which the crate keeps in the type   *)
(* system, are computed by size; an operation whose trait bounds do not    *)
(* hold is a rejected build and leaves the environment as it was.  A panic *)
(* ends the program.                                                       *)
(*                                                                         *)
(* Elements are i32.  The literals of the model are small enough that no   *)
(* i32 operation overflows, so element arithmetic is integer arithmetic.   *)
(*                                                                         *)
(* Spec is a client of the expression engine, over the matrices of the     *)
(* crate's documentation; SpecDense is a client of one dense matrix, built *)
(* by mat! from any literal within the bounds.                             *)
(***************************************************************************)
EXTENDS Integers, Sequences, FiniteSets, TLC

VARIABLES mats, expr, writes, last

vars == <<mats, expr, writes, last>>

\* ---------------------------------------------------------------- bounds

\* Rows of a literal given to mat! by a client of the dense storage.
MaxRows == 2

\* Elements of one row of such a literal.
MaxCols == 3

\* Element writes a client of the dense storage performs.
MaxWrites == 1

\* Nesting depth of an expression tree (a `&Mat` has depth 0).
MaxDepth == 2

\* Values the client writes through `a[r][c] = v`: none that a literal holds.
WriteVals == {9}

\* ---------------------------------------------------------------- literals

RECURSIVE SeqsUpTo(_, _)
\* All sequences over S of length 1..n.
SeqsUpTo(S, n) ==
    IF n = 0 THEN {}
    ELSE LET shorter == SeqsUpTo(S, n - 1)
         IN  {<<x>> : x \in S} \cup shorter
               \cup {Append(s, x) : s \in {t \in shorter : Len(t) = n - 1}, x \in S}

\* The shapes of the literals: the element count of each row.  mat! wants at
\* least one row, and __nelems! matches no literal with an empty row.
Shapes == SeqsUpTo(1..MaxCols, MaxRows)

\* The literal of a shape: row r (from 0), element c (from 0) is 1 + 2r + c,
\* as in the crate's documentation ([[1,2],[3,4]], [[1,2,3],[3,4,5]],
\* [[1,2],[3,4],[5,6]]).
Literal(shape) ==
    [r \in 1..Len(shape) |-> [c \in 1..shape[r] |-> 1 + 2 * (r - 1) + (c - 1)]]

Literals == {Literal(sh) : sh \in Shapes}

Rectangular(lit) == \A r \in 1..Len(lit) : Len(lit[r]) = Len(lit[1])

\* ---------------------------------------------------------------- mat!

\* typenum's zero, the start of both counts.
U0 == 0

\* __Inc<T> = Sum<T, U1>
__Inc(i) == i + 1

RECURSIVE __nrows(_, _)
\* __nrows!(i; rows): one __Inc per row.
__nrows(i, rows) ==
    IF rows = <<>> THEN i ELSE __nrows(__Inc(i), Tail(rows))

RECURSIVE Flatten(_)
\* $( $($e),* ),* : the elements of all rows, in order.
Flatten(rows) ==
    IF rows = <<>> THEN <<>> ELSE Head(rows) \o Flatten(Tail(rows))

RECURSIVE __nelems(_, _)
\* __nelems!(i; elems): one __Inc per element.
__nelems(i, elems) ==
    IF elems = <<>> THEN i ELSE __nelems(__Inc(i), Tail(elems))

\* typenum's Quot: integer division.
__Quot(a, b) == a \div b

NROWS(lit) == __nrows(U0, lit)
NELEMS(lit) == __nelems(U0, Flatten(lit))
NCOLS(lit) == __Quot(NELEMS(lit), NROWS(lit))

\* transmute::<[T; NELEMS], Mat<T, NROWS, NCOLS>> compiles only between types
\* of one size; Mat is its buffer of Prod<NROWS, NCOLS> elements.
TransmuteCompiles(lit) == NELEMS(lit) = NROWS(lit) * NCOLS(lit)

\* The value mat! evaluates to.
MatOf(lit) ==
    [nrows |-> NROWS(lit), ncols |-> NCOLS(lit), buffer |-> Flatten(lit)]

\* ---------------------------------------------------------------- expression trees

\* An unbound name.
None == [kind |-> "None"]

\* `&a`, for the i-th matrix of the program.
MatRef(i) == [kind |-> "Mat", id |-> i]

\* Transpose { m }
Transpose(m) == [kind |-> "Transpose", m |-> m]

\* Product { l, r }
Product(l, r) == [kind |-> "Product", l |-> l, r |-> r]

\* Sum { l, r }
Sum(l, r) == [kind |-> "Sum", l |-> l, r |-> r]

RECURSIVE Depth(_)
Depth(e) ==
    CASE e.kind = "Mat" -> 0
      [] e.kind = "Transpose" -> 1 + Depth(e.m)
      [] OTHER ->
            1 + (IF Depth(e.l) >= Depth(e.r) THEN Depth(e.l) ELSE Depth(e.r))

RECURSIVE Borrows(_)
\* The matrices an expression holds a shared reference to.
Borrows(e) ==
    CASE e.kind = "None" -> {}
      [] e.kind = "Mat" -> {e.id}
      [] e.kind = "Transpose" -> Borrows(e.m)
      [] OTHER -> Borrows(e.l) \cup Borrows(e.r)

\* ---------------------------------------------------------------- impl Matrix

\* impl Matrix for &Mat<T, NROWS, NCOLS>: its own type parameters.
MatSize(m) == <<m.nrows, m.ncols>>

\* TransposeSize without the reversal.
TransposeSizeKept(msize) == msize

\* impl Matrix for Transpose<M>: NROWS = M::NCOLS, NCOLS = M::NROWS.
TransposeSize(msize) == <<msize[2], msize[1]>>

\* impl Matrix for Product<L, R>: NROWS = L::NROWS, NCOLS = R::NCOLS.
ProductSize(lsize, rsize) == <<lsize[1], rsize[2]>>

\* impl Matrix for Sum<L, R>: NROWS = L::NROWS, NCOLS = L::NCOLS.
SumSize(lsize, rsize) == <<lsize[1], lsize[2]>>

RECURSIVE size(_)
\* Matrix::size: (NROWS::to_usize(), NCOLS::to_usize()).
size(e) ==
    CASE e.kind = "Mat" -> MatSize(mats[e.id])
      [] e.kind = "Transpose" -> TransposeSize(size(e.m))
      [] e.kind = "Product" -> ProductSize(size(e.l), size(e.r))
      [] e.kind = "Sum" -> SumSize(size(e.l), size(e.r))

\* Matrix::nrows
nrows(e) == size(e)[1]

\* Matrix::ncols
ncols(e) == size(e)[2]

\* ---------------------------------------------------------------- impl UnsafeGet

\* Zero::zero for the integer types.
Zero == 0

\* What an out-of-bounds get_unchecked may yield.
UBValues == -1..1

\* MatOffset with the row scaled by the row count.
MatOffsetByRows(m, r, c) == r * m.nrows + c

\* The offset `r * NCOLS::to_usize() + c` of &Mat's unsafe_get.
MatOffset(m, r, c) == r * m.ncols + c

\* GenericArray::get_unchecked: the element at an offset (from 0); past the end
\* of the buffer the value is unspecified.
get_unchecked(buffer, off) ==
    IF off < Len(buffer) THEN buffer[off + 1] ELSE CHOOSE v \in UBValues : TRUE

\* unsafe_get of &Mat.
MatUnsafeGet(m, r, c) == get_unchecked(m.buffer, MatOffset(m, r, c))

\* TransposeIndices with the column passed twice.
TransposeIndicesTwice(r, c) == <<c, c>>

\* The indices Transpose's unsafe_get passes to its operand: reversed.
TransposeIndices(r, c) == <<c, r>>

\* ProductRange with the loop started at 1.
ProductRangeFromOne(l) == 1..(ncols(l) - 1)

\* The range `0..self.l.ncols()` of Product's loop.
ProductRange(l) == 0..(ncols(l) - 1)

\* SumOf with the left element taken twice.
SumOfLeftTwice(lv, rv) == lv + lv

\* The body of Sum's unsafe_get, over the elements of its operands:
\* self.l.unsafe_get(r, c) + self.r.unsafe_get(r, c).
SumOf(lv, rv) == lv + rv

RECURSIVE unsafe_get(_, _, _)
RECURSIVE ProductLoop(_, _, _, _, _, _)
\* The loop of Product's unsafe_get from index i on, `sum` being the accumulator.
ProductLoop(l, r, row, col, i, sum) ==
    IF i \notin ProductRange(l) THEN sum
    ELSE ProductLoop(l, r, row, col, i + 1,
                     sum + unsafe_get(l, row, i) * unsafe_get(r, i, col))

\* UnsafeGet::unsafe_get, by the impl of the node's type.
unsafe_get(e, r, c) ==
    CASE e.kind = "Mat" -> MatUnsafeGet(mats[e.id], r, c)
      [] e.kind = "Transpose" ->
            unsafe_get(e.m, TransposeIndices(r, c)[1], TransposeIndices(r, c)[2])
      [] e.kind = "Product" -> ProductLoop(e.l, e.r, r, c, 0, Zero)
      [] e.kind = "Sum" -> SumOf(unsafe_get(e.l, r, c), unsafe_get(e.r, r, c))

RECURSIVE Calls(_, _, _)
\* Every unsafe_get call of the evaluation of e.unsafe_get(r, c): the node it
\* is made on and its indices.
Calls(e, r, c) ==
    {[node |-> e, r |-> r, c |-> c]} \cup
    CASE e.kind = "Mat" -> {}
      [] e.kind = "Transpose" ->
            Calls(e.m, TransposeIndices(r, c)[1], TransposeIndices(r, c)[2])
      [] e.kind = "Product" ->
            UNION {Calls(e.l, r, i) \cup Calls(e.r, i, c) : i \in ProductRange(e.l)}
      [] e.kind = "Sum" -> Calls(e.l, r, c) \cup Calls(e.r, r, c)

\* A call within the bounds unsafe_get requires of its caller.
CallInBounds(call) ==
    /\ call.r < nrows(call.node)
    /\ call.c < ncols(call.node)
    /\ call.node.kind = "Mat" =>
          MatOffset(mats[call.node.id], call.r, call.c)
             < Len(mats[call.node.id].buffer)

\* The bounds check of Matrix::get: assert!(r < self.nrows() && c < self.ncols()).
GetAssert(e, r, c) == r < nrows(e) /\ c < ncols(e)

\* ---------------------------------------------------------------- operators

\* MatMulBound with the bound on the matrix's rows: R: Matrix<NROWS = NROWS>.
MatMulBoundRows(m, r) == nrows(r) = m.nrows

\* impl Mul<R> for &Mat<T, NROWS, NCOLS> where R: Matrix<NROWS = NCOLS>.
MatMulBound(m, r) == nrows(r) = m.ncols

\* TransposeMulBound with the bound on the operand's columns: NROWS = L::NCOLS.
TransposeMulBoundCols(l, r) == nrows(r) = ncols(l)

\* impl Mul<R> for Transpose<L> where R: Matrix<NROWS = L::NROWS>.
TransposeMulBound(l, r) == nrows(r) = nrows(l)

\* `l * r` builds: some impl of Mul applies to the type of l.
MulCompiles(l, r) ==
    CASE l.kind = "Mat" -> MatMulBound(mats[l.id], r)
      [] l.kind = "Transpose" -> TransposeMulBound(l.m, r)
      [] OTHER -> FALSE

\* impl Add<RHS> for Product<L, R>
\* where RHS: Matrix<NROWS = L::NROWS, NCOLS = R::NCOLS>.
ProductAddBound(l, r, rhs) == nrows(rhs) = nrows(l) /\ ncols(rhs) = ncols(r)

\* `l + r` builds: some impl of Add applies to the type of l.
AddCompiles(l, r) ==
    CASE l.kind = "Product" -> ProductAddBound(l.l, l.r, r)
      [] OTHER -> FALSE

\* ---------------------------------------------------------------- row indexing

\* assert!(r < NROWS::to_usize()) of Mat's index and index_mut.
MatIndexAssert(m, r) == r < m.nrows

\* RowOf with the row's offset not scaled by NCOLS.
RowOfUnscaled(m, r) == [base |-> r, ncols |-> m.ncols]

\* The Row view Mat's index returns: NCOLS elements from offset r * NCOLS on.
RowOf(m, r) == [base |-> r * m.ncols, ncols |-> m.ncols]

\* assert!(c < NCOLS::to_usize()) of Row's index and index_mut.
RowIndexAssert(row, c) == c < row.ncols

\* The buffer offset of element c of a row view.
RowOffset(row, c) == row.base + c

\* ---------------------------------------------------------------- Matrix::get

\* Matrix::get: the assertion, then unsafe_get.
get(e, r, c) ==
    IF GetAssert(e, r, c)
    THEN [panic |-> FALSE, value |-> unsafe_get(e, r, c)]
    ELSE [panic |-> TRUE]

\* No unsafe_get call of the evaluation of e.unsafe_get(r, c) is out of bounds.
MemorySafe(e, r, c) == \A call \in Calls(e, r, c) : CallInBounds(call)

\* What e.get(r, c) may do: what the code says, or, when the assertion passes
\* and the evaluation is not memory safe, anything.
GetOutcomes(e, r, c) ==
    IF GetAssert(e, r, c) /\ ~MemorySafe(e, r, c)
    THEN {get(e, r, c), [panic |-> TRUE]}
            \cup {[panic |-> FALSE, value |-> v] : v \in UBValues}
    ELSE {get(e, r, c)}

\* Transpose::t
t(e) == Transpose(e)

\* ---------------------------------------------------------------- the client program

\* Indices the client passes for a dimension of n: every index in range, and
\* the first one past the end.
Indices(n) == 0..n

\* The literals of the crate's documentation: 2x3, 3x2 and 2x2.
DocLiterals == <<Literal(<<3, 3>>), Literal(<<2, 2, 2>>), Literal(<<2, 2>>)>>

\* The operands the client combines its expression with: `&a`, `(&a).t()`
\* and `&a * &b`.
Operands ==
    LET refs == {MatRef(i) : i \in 1..Len(mats)}
    IN  refs \cup {t(m) : m \in refs}
             \cup {Product(p[1], p[2]) :
                     p \in {q \in refs \X refs : MulCompiles(q[1], q[2])}}

\* Start of a client of the dense storage: nothing built yet.
InitDense ==
    /\ mats = <<>>
    /\ expr = None
    /\ writes = 0
    /\ last = [op |-> "start", panic |-> FALSE]

\* Start of a client of the expression engine: the documentation's matrices
\* are built, no expression yet.
Init ==
    /\ mats = [i \in 1..Len(DocLiterals) |-> MatOf(DocLiterals[i])]
    /\ expr = None
    /\ writes = 0
    /\ last = [op |-> "start", panic |-> FALSE]

\* A panic ends the program.
Running == ~last.panic

\* let a = mat!(i32, lit);
MatNew(lit) ==
    /\ Running
    /\ mats = <<>>
    /\ IF TransmuteCompiles(lit)
       THEN mats' = Append(mats, MatOf(lit))
       ELSE mats' = mats
    /\ last' = [op |-> "mat", lit |-> lit, built |-> TransmuteCompiles(lit),
                panic |-> FALSE]
    /\ UNCHANGED <<expr, writes>>

\* let x = o;
Bind(o) ==
    /\ Running
    /\ expr' = o
    /\ last' = [op |-> "bind", panic |-> FALSE]
    /\ UNCHANGED <<mats, writes>>

\* let x = x.t();
T ==
    /\ Running
    /\ expr # None
    /\ Depth(expr) < MaxDepth
    /\ expr' = t(expr)
    /\ last' = [op |-> "t", of |-> expr, panic |-> FALSE]
    /\ UNCHANGED <<mats, writes>>

\* let x = l * r;
Mul(l, r) ==
    /\ Running
    /\ Depth(l) < MaxDepth
    /\ Depth(r) < MaxDepth
    /\ expr' = IF MulCompiles(l, r) THEN Product(l, r) ELSE expr
    /\ last' = [op |-> "mul", l |-> l, r |-> r, built |-> MulCompiles(l, r),
                panic |-> FALSE]
    /\ UNCHANGED <<mats, writes>>

\* let x = l + r;
Add(l, r) ==
    /\ Running
    /\ Depth(l) < MaxDepth
    /\ Depth(r) < MaxDepth
    /\ expr' = IF AddCompiles(l, r) THEN Sum(l, r) ELSE expr
    /\ last' = [op |-> "add", l |-> l, r |-> r, built |-> AddCompiles(l, r),
                panic |-> FALSE]
    /\ UNCHANGED <<mats, writes>>

\* x.get(r, c): the assertion, then unsafe_get.  Should the evaluation make a
\* call outside its bounds, the behaviour is undefined: any value may come
\* back, or the program may crash.
Get(r, c) ==
    /\ Running
    /\ expr # None
    /\ \E o \in GetOutcomes(expr, r, c) :
          last' = [op |-> "get", e |-> expr, r |-> r, c |-> c, out |-> o,
                   panic |-> o.panic]
    /\ UNCHANGED <<mats, expr, writes>>

\* a[r][c], read.
IndexRead(i, r, c) ==
    /\ Running
    /\ LET m == mats[i]
           ok == MatIndexAssert(m, r) /\ RowIndexAssert(RowOf(m, r), c)
       IN  last' = IF ok
                   THEN [op |-> "index", id |-> i, r |-> r, c |-> c, panic |-> FALSE,
                         value |-> get_unchecked(m.buffer, RowOffset(RowOf(m, r), c))]
                   ELSE [op |-> "index", id |-> i, r |-> r, c |-> c, panic |-> TRUE]
    /\ UNCHANGED <<mats, expr, writes>>

\* a[r][c] = v.  `&mut a` needs that no live expression borrows a.
IndexWrite(i, r, c, v) ==
    /\ Running
    /\ i \notin Borrows(expr)
    /\ writes < MaxWrites
    /\ LET m == mats[i]
           ok == MatIndexAssert(m, r) /\ RowIndexAssert(RowOf(m, r), c)
       IN  /\ mats' = IF ok
                      THEN [mats EXCEPT
                              ![i].buffer[RowOffset(RowOf(m, r), c) + 1] = v]
                      ELSE mats
           /\ last' = [op |-> "index_mut", id |-> i, r |-> r, c |-> c, v |-> v,
                       panic |-> ~ok]
    /\ writes' = writes + 1
    /\ UNCHANGED expr

\* x goes out of scope.
Drop ==
    /\ Running
    /\ expr # None
    /\ expr' = None
    /\ last' = [op |-> "drop", panic |-> FALSE]
    /\ UNCHANGED <<mats, writes>>

\* let x = x * o;  or  let x = o * x;  (or x * x: the nodes are Copy)
MulStep ==
    /\ expr # None
    /\ \E o \in Operands \cup {expr} : Mul(expr, o) \/ Mul(o, expr)

\* let x = x + o;  or  let x = o + x;
AddStep ==
    /\ expr # None
    /\ \E o \in Operands \cup {expr} : Add(expr, o) \/ Add(o, expr)

\* x.get(r, c) for some indices.
GetStep ==
    /\ expr # None
    /\ \E r \in Indices(nrows(expr)), c \in Indices(ncols(expr)) : Get(r, c)

\* a[r][c] for some indices.
IndexReadStep ==
    \E i \in 1..Len(mats) :
       \E r \in Indices(mats[i].nrows), c \in Indices(mats[i].ncols) :
          IndexRead(i, r, c)

\* a[r][c] = v for some indices and value.
IndexWriteStep ==
    \E i \in 1..Len(mats), v \in WriteVals :
       \E r \in Indices(mats[i].nrows), c \in Indices(mats[i].ncols) :
          IndexWrite(i, r, c, v)

\* let x = o; for some operand.
BindStep == \E o \in Operands : Bind(o)

\* let x = &a;
RefStep == \E i \in 1..Len(mats) : Bind(MatRef(i))

\* let a = mat!(i32, lit); for some literal.
MatNewStep == \E lit \in Literals : MatNew(lit)

\* A step of a client of the expression engine.
Next ==
    \/ BindStep
    \/ T
    \/ MulStep
    \/ AddStep
    \/ GetStep

Spec == Init /\ [][Next]_vars

\* A step of a client of the dense storage.
NextDense ==
    \/ MatNewStep
    \/ RefStep
    \/ Drop
    \/ GetStep
    \/ IndexReadStep
    \/ IndexWriteStep

SpecDense == InitDense /\ [][NextDense]_vars

\* ---------------------------------------------------------------- dimensions, as specified

RECURSIVE Dims(_)
\* The dimensions of a node as the specification states them: a dense matrix
\* has its own, a Transpose its operand's swapped, a Product its left operand's
\* rows and its right operand's columns, a Sum its left operand's.
Dims(e) ==
    CASE e.kind = "Mat" -> <<mats[e.id].nrows, mats[e.id].ncols>>
      [] e.kind = "Transpose" -> <<Dims(e.m)[2], Dims(e.m)[1]>>
      [] e.kind = "Product" -> <<Dims(e.l)[1], Dims(e.r)[2]>>
      [] e.kind = "Sum" -> Dims(e.l)

Rows(e) == Dims(e)[1]

Cols(e) == Dims(e)[2]

RECURSIVE Nodes(_)
\* The nodes of an expression tree.
Nodes(e) ==
    CASE e.kind = "None" -> {}
      [] e.kind = "Mat" -> {e}
      [] e.kind = "Transpose" -> {e} \cup Nodes(e.m)
      [] OTHER -> {e} \cup Nodes(e.l) \cup Nodes(e.r)

\* A value get returned.
Returned(v) == [panic |-> FALSE, value |-> v]

\* ---------------------------------------------------------------- C1

RECURSIVE Sigma(_, _, _, _, _)
\* The sum over i = 0..k-1 of l.get(row, i) * r.get(i, col), zero for k = 0.
Sigma(l, r, row, col, k) ==
    IF k = 0 THEN 0
    ELSE Sigma(l, r, row, col, k - 1)
            + get(l, row, k - 1).value * get(r, k - 1, col).value

\* get on a Product, at every position of it, is the dot product of the left
\* operand's row and the right operand's column.
ProductIsDotProduct(e) ==
    e.kind = "Product" =>
       \A r \in 0..(Rows(e.l) - 1), c \in 0..(Cols(e.r) - 1) :
          get(e, r, c) = Returned(Sigma(e.l, e.r, r, c, Cols(e.l)))

\* C1: get(r, c) on a Product of an m x k and a k x n operand, r < m and c < n,
\* returns the sum over i < k of left.get(r, i) * right.get(i, c); for the
\* documentation's A = [[1,2,3],[3,4,5]] and B = [[1,2],[3,4],[5,6]] the
\* product's get(0, 0) is 22.
C1_ProductIsDotProduct ==
    /\ \A e \in Nodes(expr) : ProductIsDotProduct(e)
    /\ (last.op = "get" /\ last.e.kind = "Product"
          /\ last.r < Rows(last.e.l) /\ last.c < Cols(last.e.r))
         => last.out = Returned(Sigma(last.e.l, last.e.r, last.r, last.c,
                                      Cols(last.e.l)))
    /\ (last.op = "get" /\ last.e = Product(MatRef(1), MatRef(2))
          /\ last.r = 0 /\ last.c = 0)
         => last.out = Returned(22)

\* The documentation's `(&a * &b).get(0, 0)` has returned 22.
C1_Witness ==
    /\ mats[1].buffer = <<1, 2, 3, 3, 4, 5>>
    /\ mats[2].buffer = <<1, 2, 3, 4, 5, 6>>
    /\ last.op = "get"
    /\ last.e = Product(MatRef(1), MatRef(2))
    /\ last.r = 0 /\ last.c = 0
    /\ last.out = Returned(22)

\* ---------------------------------------------------------------- C3

\* C3: get(r, c) on any node panics exactly when r >= its row count or
\* c >= its column count, the counts being those the specification states for
\* the node, and otherwise returns the value of unsafe_get(r, c).
C3_GetChecksBounds ==
    last.op = "get" =>
       /\ last.out.panic <=> (last.r >= Rows(last.e) \/ last.c >= Cols(last.e))
       /\ ~last.out.panic =>
             last.out.value = unsafe_get(last.e, last.r, last.c)
       /\ last.out.panic => DOMAIN last.out = {"panic"}

\* get has panicked on a Transpose at indices that are in range for its
\* operand.
C3_Witness ==
    /\ last.op = "get"
    /\ last.out.panic
    /\ last.e.kind = "Transpose"
    /\ last.r < Rows(last.e.m)
    /\ last.c < Cols(last.e.m)

\* ---------------------------------------------------------------- C4

\* The operands of a node agree as the specification requires of it.
WellFormed(e) ==
    /\ e.kind = "Product" => Cols(e.l) = Rows(e.r)
    /\ e.kind = "Sum" => Dims(e.l) = Dims(e.r)

\* C4: a Product is built only from operands with left columns = right rows,
\* a Sum only from operands of identical dimensions; an attempt with other
\* operands is rejected, and no expression holds a node built from them.
C4_ConstructionChecksDimensions ==
    /\ \A e \in Nodes(expr) : WellFormed(e)
    /\ (last.op = "mul" /\ last.built) => Cols(last.l) = Rows(last.r)
    /\ (last.op = "add" /\ last.built) => Dims(last.l) = Dims(last.r)
    /\ (last.op = "mul" /\ Cols(last.l) # Rows(last.r)) => ~last.built
    /\ (last.op = "add" /\ Dims(last.l) # Dims(last.r)) => ~last.built

\* The product of a 2x3 and a 2x2 matrix has been attempted and rejected.
C4_Witness ==
    /\ last.op = "mul"
    /\ last.l.kind = "Mat" /\ Dims(last.l) = <<2, 3>>
    /\ last.r.kind = "Mat" /\ Dims(last.r) = <<2, 2>>
    /\ ~last.built
    /\ \A e \in Nodes(expr) : WellFormed(e)

\* ---------------------------------------------------------------- C2

\* The matrix mat! builds from the rectangular literal lit answers get(r, c)
\* with the literal's element, which its buffer holds at offset r * n + c.
HoldsLiteral(lit) ==
    LET m == Len(lit)
        n == Len(lit[1])
    IN  /\ Dims(MatRef(1)) = <<m, n>>
        /\ \A r \in 0..(m - 1), c \in 0..(n - 1) :
              /\ get(MatRef(1), r, c) = Returned(lit[r + 1][c + 1])
              /\ mats[1].buffer[r * n + c + 1] = lit[r + 1][c + 1]

\* C2: for a matrix built by mat! from a rectangular literal of m rows of n
\* elements, get(r, c), r < m and c < n, returns the literal's element at row
\* r, column c.
C2_GetReturnsLiteralElement ==
    /\ (last.op = "mat" /\ last.built /\ Rectangular(last.lit))
         => HoldsLiteral(last.lit)
    /\ \A lit \in Literals :
          (/\ Rectangular(lit)
           /\ mats = <<MatOf(lit)>>
           /\ last.op = "get"
           /\ last.r < Len(lit)
           /\ last.c < Len(lit[1]))
          => last.out = Returned(lit[last.r + 1][last.c + 1])

\* get(1, 2) on the matrix of the literal [[1,2,3],[3,4,5]] has returned 5.
C2_Witness ==
    /\ mats = <<MatOf(<<(<<1, 2, 3>>), (<<3, 4, 5>>)>>)>>
    /\ last.op = "get"
    /\ last.r = 1 /\ last.c = 2
    /\ last.out = Returned(5)

\* ---------------------------------------------------------------- C5

\* C5: mat! builds no matrix from a literal whose rows differ in length.
C5_RaggedLiteralRejected ==
    (last.op = "mat" /\ ~Rectangular(last.lit)) => ~last.built

\* ---------------------------------------------------------------- C6

\* A.t().t() has the dimensions of A, and get on it has the outcome of get
\* on A, at every index in range or just out of it.
DoubleTransposeIs(a) ==
    /\ Dims(t(t(a))) = Dims(a)
    /\ size(t(t(a))) = size(a)
    /\ \A r \in Indices(Rows(a)), c \in Indices(Cols(a)) :
          get(t(t(a)), r, c) = get(a, r, c)

\* C6: A.t().t() has the row and column counts of A, and its get(r, c) has the
\* outcome of A.get(r, c): the same element in range, a panic out of range.
C6_DoubleTransposeIdentity ==
    /\ \A a \in Nodes(expr) : DoubleTransposeIs(a)
    /\ (last.op = "get" /\ last.e.kind = "Transpose"
          /\ last.e.m.kind = "Transpose")
         => last.out = get(last.e.m.m, last.r, last.c)

\* get has returned an element off the diagonal of a twice transposed,
\* non-square matrix.
C6_Witness ==
    /\ last.op = "get"
    /\ last.e.kind = "Transpose"
    /\ last.e.m.kind = "Transpose"
    /\ Rows(last.e) # Cols(last.e)
    /\ last.r # last.c
    /\ ~last.out.panic

\* ---------------------------------------------------------------- C7

\* get on l + r, at every position, is l.get + r.get, and is what get on
\* r + l is wherever r + l builds as well.
SumCommutes(e) ==
    e.kind = "Sum" =>
       \A r \in 0..(Rows(e) - 1), c \in 0..(Cols(e) - 1) :
          /\ get(e, r, c)
               = Returned(get(e.l, r, c).value + get(e.r, r, c).value)
          /\ AddCompiles(e.r, e.l) =>
                get(Sum(e.r, e.l), r, c) = get(e, r, c)

Positions(i) == (0..(mats[i].nrows - 1)) \X (0..(mats[i].ncols - 1))

\* A read a[r][c] panics exactly out of range, and in range yields what
\* get(r, c) returns.
IndexReadsElement ==
    last.op = "index" =>
       /\ last.panic <=>
             (last.r >= Rows(MatRef(last.id)) \/ last.c >= Cols(MatRef(last.id)))
       /\ ~last.panic =>
             Returned(last.value) = get(MatRef(last.id), last.r, last.c)

\* A step a[r][c] = v, in range, makes get(r, c) return v and leaves get at
\* every other position as it was; out of range it panics and changes no
\* matrix.
IndexWritesElement ==
    (last'.op = "index_mut" /\ writes' = writes + 1) =>
       LET i == last'.id
           inRange == <<last'.r, last'.c>> \in Positions(i)
       IN  /\ last'.panic <=> ~inRange
           /\ ~inRange => mats' = mats
           /\ inRange =>
                 /\ Len(mats') = Len(mats)
                 /\ \A j \in 1..Len(mats) :
                       /\ mats'[j].nrows = mats[j].nrows
                       /\ mats'[j].ncols = mats[j].ncols
                       /\ \A p \in Positions(j) :
                             get(MatRef(j), p[1], p[2])'
                               = IF j = i /\ p = <<last'.r, last'.c>>
                                 THEN Returned(last'.v)
                                 ELSE get(MatRef(j), p[1], p[2])

\* C8: matrix[r][c] addresses the element (r, c): a read returns what
\* get(r, c) returns, a write makes get(r, c) return the value written and
\* changes get at no other position; out of range both panic and change
\* nothing.
C8_RowIndexAddressesElement ==
    /\ []IndexReadsElement
    /\ [][IndexWritesElement]_vars

\* The element (1, 1) of a 2x3 matrix has been written, and get(1, 1) now
\* returns the value written.
C8_Witness ==
    /\ last.op = "index_mut"
    /\ ~last.panic
    /\ Dims(MatRef(last.id)) = <<2, 3>>
    /\ last.r = 1 /\ last.c = 1
    /\ get(MatRef(last.id), 1, 1) = Returned(last.v)
    /\ mats[last.id].buffer = <<1, 2, 3, 3, last.v, 5>>

\* ---------------------------------------------------------------- C9

\* A call within the bounds of the node it is made on, the bounds being those
\* the specification states; on a dense matrix the offset it reads is within
\* the rows x cols elements of the buffer.
CallIsSafe(call) ==
    /\ call.r < Rows(call.node)
    /\ call.c < Cols(call.node)
    /\ call.node.kind = "Mat" =>
          LET m == mats[call.node.id]
          IN  /\ Len(m.buffer) = m.nrows * m.ncols
              /\ call.r * m.ncols + call.c < m.nrows * m.ncols

\* C9: when get(r, c) at the root of an expression passes its bounds check,
\* every unsafe_get call of the evaluation is within the bounds of its node and
\* every read of a dense buffer is within the buffer.
C9_UncheckedPathIsSafe ==
    /\ expr # None =>
          \A r \in 0..(Rows(expr) - 1), c \in 0..(Cols(expr) - 1) :
             \A call \in Calls(expr, r, c) : CallIsSafe(call)
    /\ (last.op = "get" /\ last.r < Rows(last.e) /\ last.c < Cols(last.e))
         => /\ \A call \in Calls(last.e, last.r, last.c) : CallIsSafe(call)
            /\ ~last.out.panic

\* get has returned an element of the product of a transpose and a product,
\* the evaluation reading a dense buffer at its last offset.
C9_Witness ==
    /\ last.op = "get"
    /\ ~last.out.panic
    /\ last.e.kind = "Product"
    /\ last.e.l.kind = "Transpose"
    /\ last.e.r.kind = "Product"
    /\ \E call \in Calls(last.e, last.r, last.c) :
          /\ call.node.kind = "Mat"
          /\ call.r * mats[call.node.id].ncols + call.c + 1
               = Len(mats[call.node.id].buffer)

\* ---------------------------------------------------------------- C10

\* C10: l * r builds whenever l's column count is r's row count, and l + r
\* whenever l and r have the same dimensions, whatever kinds of node l and r
\* are.
C10_OperatorsComposeAnyOperands ==
    /\ (last.op = "mul" /\ Cols(last.l) = Rows(last.r)) => last.built
    /\ (last.op = "add" /\ Dims(last.l) = Dims(last.r)) => last.built

====
